---------------------------- MODULE Spec2Model ----------------------------
(***************************************************************************)
(* A model of paperoni's epub generation (src/src/epub.rs, src/src/main.rs) *)
(*                                                                         *)
(*   SpecToc  get_header_level_toc_vec, one loop iteration per step, on    *)
(*            documents drawn from a bounded set of heading sequences.     *)
(*   Spec     generate_epubs in merged and in standalone mode, one step    *)
(*            per fallible call, each call failing or not, and the end of  *)
(*            run, which called it.                                        *)
(*   SpecFn   replace_escaped_characters, generate_appendix and            *)
(*            generate_header_ids called on their own, on arguments drawn  *)
(*            from bounded sets.                                           *)
(*                                                                         *)
(* Strings are sequences of one-character strings.                         *)
(***************************************************************************)
EXTENDS Integers, Sequences, FiniteSets, TLC

VARIABLES
    \* ---- get_header_level_toc_vec
    toc_pc,              \* position in get_header_level_toc_vec
    content_url,         \* its first argument
    article,             \* the document's h1..h4 elements, in document order
    hidx,                \* number of headings the loop has consumed
    headers_vec,         \* Vec<TocElement>
    last_toc_elem_level, \* Option<i32>: <<>> is None, <<l>> is Some(l)
    \* ---- generate_epubs
    pc,                  \* position in generate_epubs
    merged,              \* app_config.merged(): <<>> is None, <<name>> is Some(name)
    articles,            \* Vec<Extractor>
    idx,                 \* 1-based index of the article being processed
    img,                 \* number of images of that article already added
    epub,                \* the EpubBuilder in scope, or NoEpub
    article_result,      \* what the per-article closure returned
    errors,              \* Vec<PaperoniError>
    table,               \* rows of successful_articles_table
    bar,                 \* position of the progress bar
    files,               \* the output directory: file name -> state of the file
    result,              \* what generate_epubs returned
    panic,               \* message of the panic that unwound the call, or NoPanic
    \* ---- run (main.rs)
    run_errors,          \* `errors` of run
    partial_downloads,   \* `partial_downloads` of run
    exit_status,         \* status the process exited with: <<>> while it runs
    \* ---- one call of a function of epub.rs on its own
    fn_pc,               \* position of the caller
    fn_arg,              \* the function called and its argument
    fn_ret               \* what the caller has kept of the results

toc_vars == <<toc_pc, content_url, article, hidx, headers_vec, last_toc_elem_level>>
run_vars == <<run_errors, partial_downloads, exit_status>>
gen_vars == <<pc, merged, articles, idx, img, epub, article_result, errors, table,
              bar, files, result, panic, run_vars>>
fn_vars == <<fn_pc, fn_arg, fn_ret>>
vars == <<toc_vars, gen_vars, fn_vars>>

(***************************************************************************)
(* Bounds                                                                  *)
(***************************************************************************)
MaxHeadings == 6
MaxFreeHeadings == 3
MaxArticles == 2
MaxImages == 1
MaxStrLen == 4

(***************************************************************************)
(* Strings                                                                 *)
(***************************************************************************)
\* str::replace for a one-character pattern: every occurrence of `from`,
\* left to right, is replaced by the string `to`.
RECURSIVE replace(_, _, _)
replace(value, from, to) ==
    IF value = <<>> THEN <<>>
    ELSE (IF Head(value) = from THEN to ELSE <<Head(value)>>)
             \o replace(Tail(value), from, to)

\* The three replacements with the ampersand last.
replace_escaped_characters_amp_last(value) ==
    replace(replace(replace(value, "<", <<"&", "l", "t", ";">>),
                    ">", <<"&", "g", "t", ";">>),
            "&", <<"&", "a", "m", "p", ";">>)

replace_escaped_characters(value) ==
    replace(replace(replace(value, "&", <<"&", "a", "m", "p", ";">>),
                    "<", <<"&", "l", "t", ";">>),
            ">", <<"&", "g", "t", ";">>)

\* format!("{:x}", md5::compute(text)): the digest is a function of the text
\* alone.  The digest itself is not computed; it is kept as the text it was
\* computed from, marked as a digest.
md5_hex(text) == <<"#">> \o text

(***************************************************************************)
(* Documents: the h1..h4 elements of a kuchiki tree in document order.     *)
(* A heading is [name, text, has_id, id].                                  *)
(***************************************************************************)
header_levels == [h1 |-> 1, h2 |-> 2, h3 |-> 3, h4 |-> 4]

HeadingNames == <<"h1", "h2", "h3", "h4">>

\* The heading at position i of a drawn document: the texts differ from
\* position to position, those at even positions need escaping and carry
\* an id of their own.
Heading(level, i) ==
    [name |-> HeadingNames[level],
     text |-> IF i % 2 = 0 THEN <<"&", ToString(i)>> ELSE <<"a", ToString(i)>>,
     has_id |-> (i % 2 = 0),
     id |-> IF i % 2 = 0 THEN <<"id", ToString(i)>> ELSE <<>>]

\* The document of n headings with the levels ls.
Document(n, ls) == [i \in 1..n |-> Heading(ls[i], i)]

\* A heading free in text and id: equal texts and every mix of tagged and
\* untagged headings occur in the short documents made of these; a tagged
\* heading carries the id "x" or the empty id (id="").
FreeHeadings ==
    [name : {"h1", "h2"}, text : {<<"a">>, <<"<", "b">>},
     has_id : {FALSE}, id : {<<>>}]
    \cup [name : {"h1", "h2"}, text : {<<"a">>, <<"<", "b">>},
          has_id : {TRUE}, id : {<<"x">>, <<>>}]

LevelsOf(doc) == [i \in 1..Len(doc) |-> header_levels[doc[i].name]]

(***************************************************************************)
(* generate_header_ids                                                     *)
(***************************************************************************)
\* An assignment to every header, from the id the header has.
generate_header_id_rehash(header) ==
    [header EXCEPT !.has_id = TRUE, !.id = <<"_">> \o md5_hex(@)]

\* No assignment: the header is left as it is.
generate_header_id_skip(header) == header

generate_header_id(header) ==
    IF header.has_id THEN header
    ELSE [header EXCEPT !.has_id = TRUE, !.id = <<"_">> \o md5_hex(header.text)]

generate_header_ids(root_node) ==
    [i \in 1..Len(root_node) |-> generate_header_id(root_node[i])]

(***************************************************************************)
(* TocElement (epub_builder): [url, title, children]                       *)
(***************************************************************************)
TocElement_new(url, title) == [url |-> url, title |-> title, children |-> <<>>]

\* A child that takes the place of the children already there.
TocElement_child_replacing(self, child) == [self EXCEPT !.children = <<child>>]

\* TocElement::child pushes the child onto self.children.
TocElement_child(self, child) == [self EXCEPT !.children = Append(@, child)]

\* The TocElement the loop builds for one heading (lines 300-307).
toc_of(url, heading) ==
    TocElement_new(url \o <<"#">> \o heading.id,
                   replace_escaped_characters(heading.text))

\* An iteration that takes the level of every heading, child or root, as the
\* level to compare the next heading with.
toc_push_ratchet(st, url, heading) ==
    LET elem_level == header_levels[heading.name]
        toc == toc_of(url, heading)
    IN  IF ~heading.has_id THEN [st EXCEPT !.ok = FALSE]
        ELSE IF st.last # <<>> /\ elem_level > st.last[1] /\ st.vec # <<>>
        THEN [st EXCEPT !.vec[Len(st.vec)] = TocElement_child(@, toc),
                        !.last = <<elem_level>>]
        ELSE [st EXCEPT !.vec = Append(@, toc), !.last = <<elem_level>>]

\* An iteration that makes a root only of a heading of a smaller level.
toc_push_strict(st, url, heading) ==
    LET elem_level == header_levels[heading.name]
        toc == toc_of(url, heading)
    IN  IF ~heading.has_id THEN [st EXCEPT !.ok = FALSE]
        ELSE IF st.last # <<>> /\ elem_level >= st.last[1] /\ st.vec # <<>>
        THEN [st EXCEPT !.vec[Len(st.vec)] = TocElement_child(@, toc)]
        ELSE [st EXCEPT !.vec = Append(@, toc), !.last = <<elem_level>>]

\* One iteration of the loop of get_header_level_toc_vec (lines 298-323) on
\* st = [vec, last, ok]; ok becomes FALSE where the iteration panics (the
\* unwrap of a missing id, the unreachable!() arm).
toc_push(st, url, heading) ==
    LET elem_level == header_levels[heading.name]
        toc == toc_of(url, heading)
    IN  IF ~heading.has_id THEN [st EXCEPT !.ok = FALSE]
        ELSE IF st.last # <<>>
        THEN IF elem_level <= st.last[1]
             THEN [st EXCEPT !.vec = Append(@, toc), !.last = <<elem_level>>]
             ELSE IF st.vec # <<>>
                  THEN [st EXCEPT !.vec[Len(st.vec)] = TocElement_child(@, toc)]
                  ELSE [st EXCEPT !.ok = FALSE]
        ELSE [st EXCEPT !.vec = Append(@, toc), !.last = <<elem_level>>]

RECURSIVE toc_fold(_, _, _)
toc_fold(st, url, headings) ==
    IF headings = <<>> \/ ~st.ok THEN st
    ELSE toc_fold(toc_push(st, url, Head(headings)), url, Tail(headings))

\* get_header_level_toc_vec as a function of the document.
get_header_level_toc_vec(url, root_node) ==
    toc_fold([vec |-> <<>>, last |-> <<>>, ok |-> TRUE], url,
             generate_header_ids(root_node)).vec

(***************************************************************************)
(* get_header_level_toc_vec, step by step                                  *)
(***************************************************************************)
NoEpub == [state |-> "none"]
NoPanic == [message |-> "", line |-> 0]
NoResult == [kind |-> "none"]

\* No function is called on its own.
FnIdle == fn_pc = "idle" /\ fn_arg = <<>> /\ fn_ret = <<>>

\* The variables of generate_epubs while only get_header_level_toc_vec runs.
GenIdle ==
    /\ pc = "idle" /\ merged = <<>> /\ articles = <<>> /\ idx = 0 /\ img = 0
    /\ epub = NoEpub /\ article_result = NoResult /\ errors = <<>>
    /\ table = <<>> /\ bar = 0 /\ files = {} /\ result = NoResult
    /\ panic = NoPanic
    /\ run_errors = <<>> /\ partial_downloads = <<>> /\ exit_status = <<>>

TocInit ==
    /\ toc_pc = "start"
    /\ content_url = <<"index.xhtml">>
    /\ \/ \E n \in 0..MaxHeadings : \E ls \in [1..n -> 1..4] :
             article = Document(n, ls)
       \/ \E n \in 1..MaxFreeHeadings : article \in [1..n -> FreeHeadings]
    /\ hidx = 0
    /\ headers_vec = <<>>
    /\ last_toc_elem_level = <<>>
    /\ GenIdle
    /\ FnIdle

\* Lines 282-296: the anchors are assigned, the locals are set up.
TocStart ==
    /\ toc_pc = "start"
    /\ article' = generate_header_ids(article)
    /\ toc_pc' = "loop"
    /\ UNCHANGED <<content_url, hidx, headers_vec, last_toc_elem_level, gen_vars, fn_vars>>

\* Lines 298-323: one iteration of `for heading in headings`.
TocStep ==
    /\ toc_pc = "loop"
    /\ hidx < Len(article)
    /\ LET st == toc_push([vec |-> headers_vec, last |-> last_toc_elem_level,
                           ok |-> TRUE], content_url, article[hidx + 1])
       IN  /\ headers_vec' = st.vec
           /\ last_toc_elem_level' = st.last
           /\ toc_pc' = IF st.ok THEN "loop" ELSE "panicked"
    /\ hidx' = hidx + 1
    /\ UNCHANGED <<content_url, article, gen_vars, fn_vars>>

\* Line 324: the loop is over, headers_vec is returned.
TocReturn ==
    /\ toc_pc = "loop"
    /\ hidx = Len(article)
    /\ toc_pc' = "done"
    /\ UNCHANGED <<content_url, article, hidx, headers_vec, last_toc_elem_level,
                   gen_vars, fn_vars>>

TocNext == TocStart \/ TocStep \/ TocReturn

SpecToc == TocInit /\ [][TocNext]_vars

(***************************************************************************)
(* generate_epubs: data                                                    *)
(***************************************************************************)
TocIdle ==
    /\ toc_pc = "idle" /\ content_url = <<>> /\ article = <<>> /\ hidx = 0
    /\ headers_vec = <<>> /\ last_toc_elem_level = <<>>

\* The name of the merged archive (app_config.merged()).
MergedName == <<"m", "&">>

Titles == {<<"a">>, <<"a", "/">>, <<"a", "\\">>}

ArticleUrl(i) == <<"u", ToString(i)>>

\* An Extractor: its url, the title of its metadata and its document, here
\* one untagged h1 that carries the title.  The byline and img_urls are each
\* read once, where the code reads them, and are drawn there.
Extractor(i, title) ==
    [url |-> ArticleUrl(i), title |-> title,
     document |-> <<[name |-> "h1", text |-> title, has_id |-> FALSE, id |-> <<>>]>>]

Bylines == {<<>>, <<<<"A", "<">>>>}

\* PaperoniError after set_article_source.
PaperoniError(kind, source) == [kind |-> kind, source |-> source]

Ok == [kind |-> "Ok"]
Err(e) == [kind |-> "Err", err |-> e]

\* EpubBuilder::new(ZipLibrary::new()?)?
EpubBuilder_new ==
    [state |-> "open", inline_toc |-> FALSE, metadata |-> {}, contents |-> <<>>,
     resources |-> 0, generate_calls |-> 0]

EpubBuilder_metadata(builder, key, value) ==
    [builder EXCEPT !.metadata =
        {m \in @ : m.key # key} \cup {[key |-> key, value |-> value]}]

EpubBuilder_add_content(builder, content) ==
    [builder EXCEPT !.contents = Append(@, content)]

EpubBuilder_add_resource(builder) == [builder EXCEPT !.resources = @ + 1]

\* A job that ends without calling generate.
EpubBuilder_generate_skipped(builder, ok) == builder

\* epub.generate(&mut out_file), returning Ok or not.
EpubBuilder_generate(builder, ok) ==
    [builder EXCEPT !.generate_calls = @ + 1,
                    !.state = IF ok THEN "generated" ELSE @]

\* EpubContent::new(url, ..).title(title) with its .child(toc_element) calls.
EpubContent(url, title, children) ==
    [url |-> url, title |-> title, children |-> children]

\* File::create: the file exists and is empty, whatever it held before.
File_create(fs, name) ==
    {f \in fs : f.name # name} \cup {[name |-> name, written |-> FALSE, contents |-> <<>>]}

\* epub.generate(&mut out_file) returning Ok: the archive is in the file.
File_written(fs, name, builder) ==
    {f \in fs : f.name # name}
        \cup {[name |-> name, written |-> TRUE,
               contents |-> [i \in 1..Len(builder.contents) |-> builder.contents[i].url]]}

\* "{}.epub" of the title with "/" and "\" replaced by a space (lines 146-153).
file_name_of(title) ==
    replace(replace(title, "/", <<" ">>), "\\", <<" ">>) \o <<".epub">>

\* A link whose text is the title, empty or not.
appendix_link_title(a) ==
    [href |-> replace_escaped_characters(a.url),
     text |-> replace_escaped_characters(a.title)]

\* One link of generate_appendix (lines 231-240).
appendix_link(a) ==
    LET article_name == IF a.title # <<>> THEN a.title ELSE a.url
    IN  [href |-> replace_escaped_characters(a.url),
         text |-> replace_escaped_characters(article_name)]

\* generate_appendix: the links of the page, in order (the template around
\* them is fixed).
generate_appendix(as) == [i \in 1..Len(as) |-> appendix_link(as[i])]

AppendixContent(as, title) ==
    [url |-> <<"appendix.xhtml">>, title |-> replace_escaped_characters(title),
     children |-> <<>>, links |-> generate_appendix(as)]

\* A tail that reports success whatever was pushed.
return_value_ok(errs) == Ok

\* The tail of generate_epubs (lines 211-215).
return_value(errs) == IF errs = <<>> THEN Ok ELSE Err(errs)

(***************************************************************************)
(* generate_epubs: the call                                                *)
(***************************************************************************)
GenInit ==
    /\ pc = "start"
    /\ merged \in {<<>>, <<MergedName>>}
    /\ \E n \in 0..MaxArticles : \E ts \in [1..n -> Titles] :
          articles = [i \in 1..n |-> Extractor(i, ts[i])]
    /\ idx = 0
    /\ img = 0
    /\ epub = NoEpub
    /\ article_result = NoResult
    /\ errors = <<>>
    /\ table = <<>>
    /\ bar = 0
    /\ files = {}
    /\ result = NoResult
    /\ panic = NoPanic
    /\ run_errors = <<>>
    /\ partial_downloads = <<>>
    /\ exit_status = <<>>
    /\ TocIdle
    /\ FnIdle

\* The closure of the article in hand ends with Err(kind).
Fails(kind, next) ==
    /\ article_result' = Err(kind)
    /\ pc' = next

\* The call unwinds with a panic raised at a line of epub.rs.
Panics(message, line) ==
    /\ panic' = [message |-> message, line |-> line]
    /\ pc' = "panicked"

\* return Err(errors) after pushing an error whose source is the archive name.
ReturnsNameError ==
    /\ errors' = Append(errors, PaperoniError("epub", merged[1]))
    /\ result' = Err(errors')
    /\ pc' = "returned"

(***************************************************************************)
(* Merged mode (lines 38-134)                                              *)
(***************************************************************************)
\* MergedInit with the output file created before the container.
MergedInit_file_first ==
    /\ pc = "start"
    /\ merged # <<>>
    /\ files' = File_create(files, merged[1])
    /\ \E outcome \in {"ok", "zip_failed", "builder_failed"} :
        IF outcome = "ok"
        THEN /\ epub' = [EpubBuilder_new EXCEPT !.inline_toc = TRUE]
             /\ pc' = "m_loop"
             /\ UNCHANGED <<errors, result>>
        ELSE /\ ReturnsNameError
             /\ UNCHANGED epub
    /\ UNCHANGED <<merged, articles, idx, img, article_result, table, bar, panic,
                   toc_vars, fn_vars, run_vars>>

\* Lines 38-62: ZipLibrary::new and EpubBuilder::new; either failing pushes
\* one error whose source is the name and returns.
MergedInit ==
    /\ pc = "start"
    /\ merged # <<>>
    /\ \E outcome \in {"ok", "zip_failed", "builder_failed"} :
        IF outcome = "ok"
        THEN /\ epub' = [EpubBuilder_new EXCEPT !.inline_toc = TRUE]
             /\ pc' = "m_loop"
             /\ UNCHANGED <<errors, result>>
        ELSE /\ ReturnsNameError
             /\ UNCHANGED epub
    /\ UNCHANGED <<merged, articles, idx, img, article_result, table, bar, files,
                   panic, toc_vars, fn_vars, run_vars>>

\* article_{idx}.xhtml, idx counted from 0 (line 72).
merged_content_url(i) == <<"article_", ToString(i - 1), ".xhtml">>

\* Lines 66-70: the next article is taken, its document is serialized and the
\* bytes are read as UTF-8.
MergedSerialize ==
    /\ pc = "m_loop"
    /\ idx < Len(articles)
    /\ idx' = idx + 1
    /\ img' = 0
    /\ \E outcome \in {"ok", "xhtml", "utf8"} :
        IF outcome = "ok"
        THEN pc' = "m_metadata" /\ UNCHANGED article_result
        ELSE Fails(outcome, "m_end")
    /\ UNCHANGED <<merged, articles, epub, errors, table, bar, files, result, panic,
                   toc_vars, fn_vars, run_vars>>

\* Lines 71-82: the content and its TOC are built (the headings get their
\* anchors) and the archive's title is set.
MergedMetadata ==
    /\ pc = "m_metadata"
    /\ articles' = [articles EXCEPT ![idx].document = generate_header_ids(@)]
    /\ \E ok \in BOOLEAN :
        IF ok
        THEN /\ epub' = EpubBuilder_metadata(epub, "title",
                                             replace_escaped_characters(merged[1]))
             /\ pc' = "m_add_content"
             /\ UNCHANGED article_result
        ELSE /\ Fails("epub", "m_end")
             /\ UNCHANGED epub
    /\ UNCHANGED <<merged, idx, img, errors, table, bar, files, result, panic, toc_vars, fn_vars, run_vars>>

\* The content of lines 71-80 for the article in hand.
merged_content(i) ==
    EpubContent(merged_content_url(i),
                replace_escaped_characters(articles[i].title),
                get_header_level_toc_vec(merged_content_url(i), articles[i].document))

\* Line 83: epub.add_content(content)?
MergedAddContent ==
    /\ pc = "m_add_content"
    /\ \E ok \in BOOLEAN :
        IF ok
        THEN /\ epub' = EpubBuilder_add_content(epub, merged_content(idx))
             /\ pc' = "m_images"
             /\ UNCHANGED article_result
        ELSE /\ Fails("epub", "m_end")
             /\ UNCHANGED epub
    /\ UNCHANGED <<merged, articles, idx, img, errors, table, bar, files, result,
                   panic, toc_vars, fn_vars, run_vars>>

\* Lines 85-97, one image of article.img_urls: the file is opened and added
\* as a resource; a missing file, a missing MIME type and a failing
\* add_resource each panic.
MergedAddImage ==
    /\ pc = "m_images"
    /\ img < MaxImages
    /\ \E outcome \in {"ok", "open_failed", "no_mime", "add_failed"} :
        CASE outcome = "ok" ->
                /\ epub' = EpubBuilder_add_resource(epub)
                /\ img' = img + 1
                /\ UNCHANGED <<pc, panic>>
          [] outcome = "open_failed" ->
                Panics("Can't read file", 90) /\ UNCHANGED <<epub, img>>
          [] outcome = "no_mime" ->
                Panics("unwrap", 94) /\ UNCHANGED <<epub, img>>
          [] OTHER ->
                Panics("unwrap", 96) /\ UNCHANGED <<epub, img>>
    /\ UNCHANGED <<merged, articles, idx, article_result, errors, table, bar, files,
                   result, toc_vars, fn_vars, run_vars>>

\* Lines 98-99: img_urls is exhausted, the closure returns Ok(()).
MergedImagesDone ==
    /\ pc = "m_images"
    /\ article_result' = Ok
    /\ pc' = "m_end"
    /\ UNCHANGED <<merged, articles, idx, img, epub, errors, table, bar, files, result,
                   panic, toc_vars, fn_vars, run_vars>>

\* Lines 101-107: an error of the closure is pushed with the article's url;
\* the bar advances and the table gets the article's title.
MergedArticleEnd ==
    /\ pc = "m_end"
    /\ errors' = IF article_result.kind = "Err"
                 THEN Append(errors, PaperoniError(article_result.err, articles[idx].url))
                 ELSE errors
    /\ bar' = bar + 1
    /\ table' = Append(table, articles[idx].title)
    /\ article_result' = NoResult
    /\ pc' = "m_loop"
    /\ UNCHANGED <<merged, articles, idx, img, epub, files, result, panic, toc_vars, fn_vars, run_vars>>

\* Lines 109-118: the appendix of all articles is added; a failure pushes an
\* error whose source is the name and returns.
MergedAppendix ==
    /\ pc = "m_loop"
    /\ idx = Len(articles)
    /\ \E ok \in BOOLEAN :
        IF ok
        THEN /\ epub' = EpubBuilder_add_content(epub,
                            AppendixContent(articles, <<"Article Sources">>))
             /\ pc' = "m_create"
             /\ UNCHANGED <<errors, result>>
        ELSE /\ ReturnsNameError
             /\ UNCHANGED epub
    /\ UNCHANGED <<merged, articles, idx, img, article_result, table, bar, files,
                   panic, toc_vars, fn_vars, run_vars>>

\* Line 120: File::create(&name).unwrap()
MergedCreate ==
    /\ pc = "m_create"
    /\ \E ok \in BOOLEAN :
        IF ok
        THEN /\ files' = File_create(files, merged[1])
             /\ pc' = "m_generate"
             /\ UNCHANGED panic
        ELSE /\ Panics("unwrap", 120)
             /\ UNCHANGED files
    /\ UNCHANGED <<merged, articles, idx, img, epub, article_result, errors, table, bar,
                   result, toc_vars, fn_vars, run_vars>>

\* Lines 121-133 and 211-215: epub.generate(&mut out_file); a failure pushes
\* an error whose source is the name and returns, otherwise the function
\* returns by its tail.
MergedGenerate ==
    /\ pc = "m_generate"
    /\ \E ok \in BOOLEAN :
        IF ok
        THEN /\ epub' = EpubBuilder_generate(epub, TRUE)
             /\ files' = File_written(files, merged[1], epub)
             /\ result' = return_value(errors)
             /\ pc' = "returned"
             /\ UNCHANGED errors
        ELSE /\ ReturnsNameError
             /\ epub' = EpubBuilder_generate(epub, FALSE)
             /\ UNCHANGED files
    /\ UNCHANGED <<merged, articles, idx, img, article_result, table, bar, panic,
                   toc_vars, fn_vars, run_vars>>

(***************************************************************************)
(* Standalone mode (lines 135-208)                                         *)
(***************************************************************************)
\* Lines 143-145: the next article is taken and its EpubBuilder is created.
StandaloneNew ==
    /\ pc \in {"start", "s_loop"}
    /\ merged = <<>>
    /\ idx < Len(articles)
    /\ idx' = idx + 1
    /\ img' = 0
    /\ \E outcome \in {"ok", "zip_failed", "builder_failed"} :
        IF outcome = "ok"
        THEN /\ epub' = EpubBuilder_new
             /\ pc' = "s_create"
             /\ UNCHANGED article_result
        ELSE /\ Fails("epub", "s_end")
             /\ UNCHANGED epub
    /\ UNCHANGED <<merged, articles, errors, table, bar, files, result, panic, toc_vars, fn_vars, run_vars>>

\* Lines 146-155: File::create(&file_name).unwrap()
StandaloneCreate ==
    /\ pc = "s_create"
    /\ \E ok \in BOOLEAN :
        IF ok
        THEN /\ files' = File_create(files, file_name_of(articles[idx].title))
             /\ pc' = "s_serialize"
             /\ UNCHANGED panic
        ELSE /\ Panics("unwrap", 155)
             /\ UNCHANGED files
    /\ UNCHANGED <<merged, articles, idx, img, epub, article_result, errors, table, bar,
                   result, toc_vars, fn_vars, run_vars>>

\* Lines 156-159: serialize_to_xhtml(..).expect(..) and from_utf8(..).unwrap()
StandaloneSerialize ==
    /\ pc = "s_serialize"
    /\ \E outcome \in {"ok", "xhtml", "utf8"} :
        CASE outcome = "ok" -> pc' = "s_metadata" /\ UNCHANGED panic
          [] outcome = "xhtml" -> Panics("Unable to serialize to xhtml", 158)
          [] OTHER -> Panics("unwrap", 159)
    /\ UNCHANGED <<merged, articles, idx, img, epub, article_result, errors, table, bar,
                   files, result, toc_vars, fn_vars, run_vars>>

\* Lines 160-167: the TOC is built (the headings get their anchors), the
\* author, when there is a byline, and the title are set.
StandaloneMetadata ==
    /\ pc = "s_metadata"
    /\ articles' = [articles EXCEPT ![idx].document = generate_header_ids(@)]
    /\ \E byline \in Bylines, outcome \in {"ok", "author_failed", "title_failed"} :
        /\ outcome = "author_failed" => byline # <<>>
        /\ IF outcome = "ok"
           THEN /\ epub' = EpubBuilder_metadata(
                             IF byline # <<>>
                             THEN EpubBuilder_metadata(epub, "author",
                                      replace_escaped_characters(byline[1]))
                             ELSE epub,
                             "title", replace_escaped_characters(articles[idx].title))
                /\ pc' = "s_add_content"
                /\ UNCHANGED article_result
           ELSE /\ Fails("epub", "s_end")
                /\ UNCHANGED epub
    /\ UNCHANGED <<merged, idx, img, errors, table, bar, files, result, panic, toc_vars, fn_vars, run_vars>>

\* The content of lines 160-174 for the article in hand.
standalone_content(i) ==
    EpubContent(<<"index.xhtml">>,
                replace_escaped_characters(articles[i].title),
                get_header_level_toc_vec(<<"index.xhtml">>, articles[i].document))

\* Line 176: epub.add_content(content)?
StandaloneAddContent ==
    /\ pc = "s_add_content"
    /\ \E ok \in BOOLEAN :
        IF ok
        THEN /\ epub' = EpubBuilder_add_content(epub, standalone_content(idx))
             /\ pc' = "s_images"
             /\ UNCHANGED article_result
        ELSE /\ Fails("epub", "s_end")
             /\ UNCHANGED epub
    /\ UNCHANGED <<merged, articles, idx, img, errors, table, bar, files, result,
                   panic, toc_vars, fn_vars, run_vars>>

\* Lines 178-188, one image of article.img_urls: a missing file and a missing
\* MIME type panic, a failing add_resource ends the closure with its error.
StandaloneAddImage ==
    /\ pc = "s_images"
    /\ img < MaxImages
    /\ \E outcome \in {"ok", "open_failed", "no_mime", "add_failed"} :
        CASE outcome = "ok" ->
                /\ epub' = EpubBuilder_add_resource(epub)
                /\ img' = img + 1
                /\ UNCHANGED <<pc, panic, article_result>>
          [] outcome = "open_failed" ->
                Panics("Can't read file", 182) /\ UNCHANGED <<epub, img, article_result>>
          [] outcome = "no_mime" ->
                Panics("unwrap", 186) /\ UNCHANGED <<epub, img, article_result>>
          [] OTHER ->
                Fails("epub", "s_end") /\ UNCHANGED <<epub, img, panic>>
    /\ UNCHANGED <<merged, articles, idx, errors, table, bar, files, result, toc_vars, fn_vars, run_vars>>

\* Lines 189-193: img_urls is exhausted and the appendix of this article is
\* added.
StandaloneAppendix ==
    /\ pc = "s_images"
    /\ \E ok \in BOOLEAN :
        IF ok
        THEN /\ epub' = EpubBuilder_add_content(epub,
                            AppendixContent(<<articles[idx]>>, <<"Article Source">>))
             /\ pc' = "s_generate"
             /\ UNCHANGED article_result
        ELSE /\ Fails("epub", "s_end")
             /\ UNCHANGED epub
    /\ UNCHANGED <<merged, articles, idx, img, errors, table, bar, files, result,
                   panic, toc_vars, fn_vars, run_vars>>

\* Lines 194-200: epub.generate(&mut out_file)?; then the bar advances, the
\* table gets the article's title and the closure returns Ok(()).
StandaloneGenerate ==
    /\ pc = "s_generate"
    /\ \E ok \in BOOLEAN :
        IF ok
        THEN /\ epub' = EpubBuilder_generate(epub, TRUE)
             /\ files' = File_written(files, file_name_of(articles[idx].title), epub)
             /\ bar' = bar + 1
             /\ table' = Append(table, articles[idx].title)
             /\ article_result' = Ok
             /\ pc' = "s_end"
        ELSE /\ Fails("epub", "s_end")
             /\ epub' = EpubBuilder_generate(epub, FALSE)
             /\ UNCHANGED <<files, bar, table>>
    /\ UNCHANGED <<merged, articles, idx, img, errors, result, panic, toc_vars, fn_vars, run_vars>>

\* Lines 202-205: an error of the closure is pushed with the article's url;
\* the closure's EpubBuilder is gone.
StandaloneArticleEnd ==
    /\ pc = "s_end"
    /\ errors' = IF article_result.kind = "Err"
                 THEN Append(errors, PaperoniError(article_result.err, articles[idx].url))
                 ELSE errors
    /\ epub' = NoEpub
    /\ article_result' = NoResult
    /\ pc' = "s_loop"
    /\ UNCHANGED <<merged, articles, idx, img, table, bar, files, result, panic,
                   toc_vars, fn_vars, run_vars>>

\* Lines 207 and 211-215: the loop is over, the function returns by its tail.
StandaloneFinish ==
    /\ pc \in {"start", "s_loop"}
    /\ merged = <<>>
    /\ idx = Len(articles)
    /\ result' = return_value(errors)
    /\ pc' = "returned"
    /\ UNCHANGED <<merged, articles, idx, img, epub, article_result, errors, table, bar,
                   files, panic, toc_vars, fn_vars, run_vars>>

\* What download left in `errors` and in `partial_downloads` (main.rs line
\* 53): nothing, or one entry.
DownloadErrors == {<<>>, <<PaperoniError("http", <<"u", "0">>)>>}

PartialDownloads == {<<>>, <<<<"u", "1">>>>}

\* main.rs line 68 without the partial downloads.
has_errors_only(errs, partial) == errs # <<>>

\* main.rs line 68.
has_errors(errs, partial) == errs # <<>> \/ partial # <<>>

\* main.rs lines 61-87: the errors generate_epubs returned are appended to
\* those of download; the process exits with 1 if has_errors, and with 0,
\* by the return of run and of main, if not.
RunFinish ==
    /\ pc = "returned"
    /\ \E download_errors \in DownloadErrors :
          run_errors' = IF result.kind = "Err" THEN download_errors \o result.err
                        ELSE download_errors
    /\ partial_downloads' \in PartialDownloads
    /\ exit_status' = IF has_errors(run_errors', partial_downloads') THEN <<1>>
                       ELSE <<0>>
    /\ pc' = "exited"
    /\ UNCHANGED <<merged, articles, idx, img, epub, article_result, errors, table, bar,
                   files, result, panic, toc_vars, fn_vars>>

\* main.rs line 61: a panic of generate_epubs unwinds run and main; the
\* process exits with 101.
RunUnwind ==
    /\ pc = "panicked"
    /\ exit_status' = <<101>>
    /\ pc' = "exited"
    /\ UNCHANGED <<merged, articles, idx, img, epub, article_result, errors, table, bar,
                   files, result, panic, run_errors, partial_downloads, toc_vars,
                   fn_vars>>

Next ==
    \/ MergedInit \/ MergedSerialize \/ MergedMetadata \/ MergedAddContent
    \/ MergedAddImage \/ MergedImagesDone \/ MergedArticleEnd \/ MergedAppendix
    \/ MergedCreate \/ MergedGenerate
    \/ StandaloneNew \/ StandaloneCreate \/ StandaloneSerialize \/ StandaloneMetadata
    \/ StandaloneAddContent \/ StandaloneAddImage \/ StandaloneAppendix
    \/ StandaloneGenerate \/ StandaloneArticleEnd \/ StandaloneFinish
    \/ RunFinish \/ RunUnwind

Spec == GenInit /\ [][Next]_vars

(***************************************************************************)
(* The functions of epub.rs called on their own                            *)
(***************************************************************************)
\* The characters of the strings passed to replace_escaped_characters: the
\* three it escapes, one it leaves alone, and the one that ends an entity.
Chars == {"a", "&", "<", ">", ";"}

\* The articles passed to generate_appendix: the url and the title of an
\* Extractor, the title empty or not, both with characters to escape.
AppendixArticles ==
    [url : {<<"u">>, <<"u", "&", "<">>}, title : {<<>>, <<"a">>, <<"<", "&">>}]

\* The headings generate_header_ids selects for assignment (lines 262-267),
\* as positions in the document.
headers_no_id(root_node) == {i \in 1..Len(root_node) : ~root_node[i].has_id}

\* The id attribute is removed from the headings at the positions ps.
remove_ids(root_node, ps) ==
    [i \in 1..Len(root_node) |->
        IF i \in ps THEN [root_node[i] EXCEPT !.has_id = FALSE, !.id = <<>>]
        ELSE root_node[i]]

FnInit ==
    /\ fn_pc = "call"
    /\ \/ \E n \in 0..MaxStrLen : \E value \in [1..n -> Chars] :
             fn_arg = [fn |-> "replace_escaped_characters", value |-> value]
       \/ \E n \in 0..MaxArticles : \E as \in [1..n -> AppendixArticles] :
             fn_arg = [fn |-> "generate_appendix", articles |-> as]
       \/ \E n \in 0..MaxFreeHeadings : \E root_node \in [1..n -> FreeHeadings] :
             fn_arg = [fn |-> "generate_header_ids", root_node |-> root_node,
                       generated |-> {}]
    /\ fn_ret = <<>>
    /\ TocIdle
    /\ GenIdle

\* replace_escaped_characters(value) is called and its result kept.
CallReplaceEscapedCharacters ==
    /\ fn_pc = "call"
    /\ fn_arg.fn = "replace_escaped_characters"
    /\ fn_ret' = replace_escaped_characters(fn_arg.value)
    /\ fn_pc' = "returned"
    /\ UNCHANGED <<fn_arg, toc_vars, gen_vars>>

\* generate_appendix(articles) is called and its result kept.
CallGenerateAppendix ==
    /\ fn_pc = "call"
    /\ fn_arg.fn = "generate_appendix"
    /\ fn_ret' = generate_appendix(fn_arg.articles)
    /\ fn_pc' = "returned"
    /\ UNCHANGED <<fn_arg, toc_vars, gen_vars>>

\* generate_header_ids(&root_node) is called: the tree is changed in place.
\* The first call on a tree is followed by a second one, at once or after
\* the ids the first call assigned have been removed; the caller keeps the
\* tree as the first call left it.
CallGenerateHeaderIds ==
    /\ fn_pc \in {"call", "returned", "cleared"}
    /\ fn_arg.fn = "generate_header_ids"
    /\ fn_arg' = [fn_arg EXCEPT
                     !.root_node = generate_header_ids(@),
                     !.generated = IF fn_pc = "call"
                                   THEN headers_no_id(fn_arg.root_node) ELSE @]
    /\ fn_ret' = IF fn_pc = "call" THEN generate_header_ids(fn_arg.root_node)
                 ELSE fn_ret
    /\ fn_pc' = CASE fn_pc = "call" -> "returned"
                   [] fn_pc = "returned" -> "again"
                   [] fn_pc = "cleared" -> "regenerated"
    /\ UNCHANGED <<toc_vars, gen_vars>>

\* The ids the first call assigned are removed from the tree.
ClearGeneratedIds ==
    /\ fn_pc = "returned"
    /\ fn_arg.fn = "generate_header_ids"
    /\ fn_arg' = [fn_arg EXCEPT !.root_node = remove_ids(@, fn_arg.generated)]
    /\ fn_pc' = "cleared"
    /\ UNCHANGED <<fn_ret, toc_vars, gen_vars>>

FnNext ==
    \/ CallReplaceEscapedCharacters \/ CallGenerateAppendix
    \/ CallGenerateHeaderIds \/ ClearGeneratedIds

SpecFn == FnInit /\ [][FnNext]_vars

(***************************************************************************)
(* Properties of generate_epubs                                            *)
(***************************************************************************)
\* The errors whose source is the url of the i-th article.
ErrorsOf(i) == {k \in 1..Len(errors) : errors[k].source = articles[i].url}

\* The titles of the first n articles that have no error, in input order.
RECURSIVE unfailed_titles(_)
unfailed_titles(n) ==
    IF n = 0 THEN <<>>
    ELSE unfailed_titles(n - 1)
             \o (IF ErrorsOf(n) = {} THEN <<articles[n].title>> ELSE <<>>)

\* The content urls a merged archive has for the articles without an error,
\* followed by the appendix.
RECURSIVE unfailed_contents(_)
unfailed_contents(n) ==
    IF n = 0 THEN <<>>
    ELSE unfailed_contents(n - 1)
             \o (IF ErrorsOf(n) = {} THEN <<merged_content_url(n)>> ELSE <<>>)

WrittenFiles == {f \in files : f.written}

\* C1: in standalone mode no failure in an article's pipeline ends the run:
\* each is recorded as one error with that article's url and the loop goes
\* on; with 2 articles of which one fails serialization the run ends with 1
\* archive file, 1 error with the failing article's url and the other
\* article in the table.
C1_StandaloneIsolation ==
    merged = <<>> =>
        /\ pc # "panicked"
        /\ pc \in {"s_loop", "returned"} =>
              /\ \A i \in 1..idx : Cardinality(ErrorsOf(i)) <= 1
              /\ Len(errors) + Len(table) = idx
        /\ (Len(articles) = 2 /\ panic.message = "Unable to serialize to xhtml") =>
              /\ Cardinality(files) = 1
              /\ Len(errors) = 1
              /\ errors[1].source = articles[idx].url
              /\ \E r \in 1..Len(table) : table[r] = articles[3 - idx].title

\* C2: in merged mode no failure while an article's content or images are
\* processed ends the run: each is recorded with that article's url; and the
\* archive, once written, holds a content item for exactly the articles
\* without an error, then the appendix.
C2_MergedIsolation ==
    merged # <<>> =>
        /\ pc = "panicked" => panic.line = 120
        /\ \A i \in 1..Len(articles) : Cardinality(ErrorsOf(i)) <= 1
        /\ \A f \in WrittenFiles :
              f.contents = unfailed_contents(Len(articles)) \o <<<<"appendix.xhtml">>>>

\* C3: in merged mode a failure to create the container returns at once: no
\* article is processed, no file exists, and the error list is exactly one
\* error whose source is the name of the merged archive.
C3_MergedInitFailure ==
    [][(pc = "start" /\ merged # <<>> /\ epub' = NoEpub) =>
          /\ pc' = "returned"
          /\ files' = {}
          /\ Len(errors') = 1
          /\ errors'[1].source = merged[1]
          /\ result' = Err(errors')
          /\ idx' = 0 /\ bar' = 0 /\ table' = <<>>
          /\ articles' = articles]_vars

\* A merged run of one article or more that has returned without a container.
C3_Witness ==
    /\ merged # <<>>
    /\ pc = "returned"
    /\ epub = NoEpub
    /\ Len(articles) >= 1
    /\ Len(errors) = 1

\* C4: a merged run that returns after the appendix or the finalization has
\* failed returns an error whose source is the name of the archive, and no
\* output file exists.
C4_MergedTailFailure ==
    (merged # <<>> /\ pc = "returned" /\ epub.state = "open") =>
        /\ result.kind = "Err"
        /\ errors[Len(errors)].source = merged[1]
        /\ files = {}

\* C5: generate_epubs returns Ok exactly when no error was pushed during the
\* run, and otherwise returns Err of all the errors pushed, in the order they
\* were pushed, on every path that returns.
C5_ReturnValue ==
    pc = "returned" =>
        /\ result.kind \in {"Ok", "Err"}
        /\ result.kind = "Ok" <=> errors = <<>>
        /\ result.kind = "Err" => result.err = errors

\* A merged run that returned early with the errors of two articles before
\* the error of the archive.
C5_Witness ==
    /\ pc = "returned"
    /\ merged # <<>>
    /\ epub.state = "open"
    /\ result.kind = "Err"
    /\ Len(result.err) = 3
    /\ result.err[1].source = articles[1].url
    /\ result.err[3].source = merged[1]

\* C6: whenever an article has been completed, and at the return, the table
\* has one row for each article processed so far that has no error, in input
\* order, and none for an article that has one.
C6_TableRows ==
    pc \in {"m_loop", "s_loop", "returned"} => table = unfailed_titles(idx)

\* C7: the bar has advanced once for each completed article, failed or not,
\* so it stands at the number of articles when the loop is over.
C7_Progress ==
    /\ pc \in {"m_loop", "s_loop"} => bar = idx
    /\ (pc \in {"m_create", "m_generate", "returned"} /\ idx = Len(articles)) =>
          bar = Len(articles)

\* The appendix is among the contents of the builder: every step of the job
\* before File::create (merged) or before generate (standalone) succeeded.
has_appendix(builder) ==
    \E k \in 1..Len(builder.contents) : builder.contents[k].url = <<"appendix.xhtml">>

\* The job whose EpubBuilder is in scope has ended: the closure of a
\* standalone article returned, the merged run returned, or a panic unwound
\* the call; so it is when the process has exited.
job_ended ==
    pc \in {"s_end", "panicked", "exited"} \/ (pc = "returned" /\ merged # <<>>)

errors_kept == Len(errors') >= Len(errors) /\ SubSeq(errors', 1, Len(errors)) = errors

\* The records a step appends carry the url of the article in hand when the
\* step ends the closure of an article, and the name of the merged archive
\* otherwise.
errors_sourced ==
    \A k \in (Len(errors) + 1)..Len(errors') :
        IF pc \in {"m_end", "s_end"} THEN errors'[k].source = articles[idx].url
        ELSE merged # <<>> /\ errors'[k].source = merged[1]

\* A step records the error the closure of the article in hand returned.
errors_recorded == article_result.kind = "Err" => Len(errors') = Len(errors) + 1

\* C16: every step keeps the records of the error list, appends only
\* records whose source is the url of the article in hand or the name of
\* the merged archive, and no failing call is left without a record: the
\* error of a closure is appended and no call unwinds with a panic.
C16_ErrorList ==
    [][errors_kept /\ errors_sourced /\ errors_recorded /\ pc' # "panicked"]_vars

\* What holds of the error list, panics apart.
ErrorListApartFromPanics == [][errors_kept /\ errors_sourced /\ errors_recorded]_vars

\* The title with a space for every "/" and "\".
sanitized(title) ==
    [k \in 1..Len(title) |-> IF title[k] \in {"/", "\\"} THEN " " ELSE title[k]]

\* C17: when a standalone run has returned, every archive in the output
\* directory is named by the sanitized title of an article of the table and
\* ".epub", and there are as many archives as articles in the table: none
\* was overwritten.  Files that were created and never written are not
\* counted.
C17_OneFilePerArticle ==
    (merged = <<>> /\ pc = "returned") =>
        /\ \A f \in WrittenFiles :
              \E r \in 1..Len(table) : f.name = sanitized(table[r]) \o <<".epub">>
        /\ Cardinality(WrittenFiles) = Len(table)

\* What holds of the archives: each is named by the sanitized title of an
\* article of the table, there are never more of them than articles in the
\* table, and as many when no two sanitized titles are equal.
ArchivesNamedByTitle ==
    (merged = <<>> /\ pc = "returned") =>
        /\ \A f \in WrittenFiles :
              \E r \in 1..Len(table) : f.name = sanitized(table[r]) \o <<".epub">>
        /\ Cardinality(WrittenFiles) <= Len(table)
        /\ (\A i, j \in 1..Len(articles) :
                i # j => sanitized(articles[i].title) # sanitized(articles[j].title))
              => Cardinality(WrittenFiles) = Len(table)

\* C18 as claimed: a process that has exited after generate_epubs returned
\* has exited with a failure status exactly when the errors of download
\* extended with those generate_epubs returned are not empty.
C18_ExitStatusErrors ==
    (pc = "exited" /\ panic = NoPanic) =>
        (exit_status # <<0>> <=> run_errors # <<>>)

\* C18 as amended: a process that has exited after generate_epubs returned
\* holds in `errors` the errors of download followed by those generate_epubs
\* pushed, and has exited with 1 when that list or the list of partial
\* downloads is not empty and with 0 when both are empty; a process that has
\* exited by a panic of generate_epubs has exited with a failure status.
C18_ExitStatus ==
    pc = "exited" =>
        IF panic = NoPanic
        THEN /\ \E download_errors \in DownloadErrors :
                   run_errors = download_errors \o errors
             /\ exit_status \in {<<0>>, <<1>>}
             /\ exit_status = <<1>> <=>
                   (run_errors # <<>> \/ partial_downloads # <<>>)
        ELSE exit_status \notin {<<>>, <<0>>}

\* The process has exited with 1 with an empty error list and one partial
\* download, after a standalone run that generated an article.
C18_Witness ==
    /\ pc = "exited"
    /\ panic = NoPanic
    /\ run_errors = <<>>
    /\ partial_downloads # <<>>
    /\ exit_status = <<1>>
    /\ Len(table) = 1

\* The number of articles whose pipeline is over, by what the run has
\* written down: a standalone article leaves a row or a record, a merged
\* article a row.
finished == IF merged = <<>> THEN Len(table) + Len(errors) ELSE Len(table)

\* s can be had from t by leaving elements out.
RECURSIVE is_subsequence(_, _)
is_subsequence(s, t) ==
    IF s = <<>> THEN TRUE
    ELSE IF t = <<>> THEN FALSE
    ELSE IF Head(s) = Head(t) THEN is_subsequence(Tail(s), Tail(t))
    ELSE is_subsequence(s, Tail(t))

\* The position in the input of the article a record is about; the records
\* of the merged archive itself come after those of all the articles.
article_of(error) ==
    IF \E i \in 1..Len(articles) : articles[i].url = error.source
    THEN CHOOSE i \in 1..Len(articles) : articles[i].url = error.source
    ELSE Len(articles) + 1

\* One article at a time, in input order: the article in hand is the only
\* one whose pipeline is not over, none is in hand between two articles, and
\* the rows and the records are in the order of the input.
one_at_a_time ==
    /\ finished \in {idx - 1, idx}
    /\ pc \in {"start", "m_loop", "s_loop"} => finished = idx
    /\ is_subsequence(table, [i \in 1..idx |-> articles[i].title])
    /\ \A k, l \in 1..Len(errors) :
          k < l => article_of(errors[k]) <= article_of(errors[l])
    /\ \A k \in 1..Len(errors) :
          article_of(errors[k]) \in 1..idx \/ errors[k].source = merged[1]

\* The run is over: generate_epubs returned or was unwound by a panic.
run_ended == pc \in {"returned", "panicked", "exited"}

\* The container of the merged archive could not be created.
container_creation_failed == merged # <<>> /\ epub = NoEpub /\ idx = 0

\* C21: the articles are processed one at a time in input order, each with
\* its row or record written before the next is taken, and a run that is
\* over has processed every article of the input unless the container of
\* the merged archive could not be created.
C21_SequentialToCompletion ==
    (pc # "idle") =>
        /\ one_at_a_time
        /\ run_ended => (finished = Len(articles) \/ container_creation_failed)

\* What holds of the order and of the end of the run, panics apart.
SequentialApartFromPanics ==
    (pc # "idle") =>
        /\ one_at_a_time
        /\ (run_ended /\ panic = NoPanic) =>
              (finished = Len(articles) \/ container_creation_failed)

(***************************************************************************)
(* Properties of replace_escaped_characters and generate_appendix          *)
(***************************************************************************)
\* The reference: each character on its own.
escape_char(c) ==
    CASE c = "&" -> <<"&", "a", "m", "p", ";">>
      [] c = "<" -> <<"&", "l", "t", ";">>
      [] c = ">" -> <<"&", "g", "t", ";">>
      [] OTHER -> <<c>>

RECURSIVE escape_ref(_)
escape_ref(value) ==
    IF value = <<>> THEN <<>>
    ELSE escape_char(Head(value)) \o escape_ref(Tail(value))

\* C13: replace_escaped_characters returns what the per-character map
\* returns, for every string, and returns the string itself when none of
\* "&", "<", ">" is in it.
C13_EscapeIsCharacterMap ==
    (fn_pc = "returned" /\ fn_arg.fn = "replace_escaped_characters") =>
        /\ fn_ret = escape_ref(fn_arg.value)
        /\ (\A i \in 1..Len(fn_arg.value) : fn_arg.value[i] \notin {"&", "<", ">"})
              => fn_ret = fn_arg.value

\* "<&a>" has been escaped to "&lt;&amp;a&gt;".
C13_Witness ==
    /\ fn_pc = "returned"
    /\ fn_arg.fn = "replace_escaped_characters"
    /\ fn_arg.value = <<"<", "&", "a", ">">>
    /\ fn_ret = <<"&", "l", "t", ";", "&", "a", "m", "p", ";", "a", "&", "g", "t", ";">>

\* C14: generate_appendix always returns, with one link per article in the
\* order of the articles; the href is the escaped url, the text the escaped
\* title, or the escaped url where the title is empty.
C14_AppendixLinks ==
    /\ (fn_pc = "call" /\ fn_arg.fn = "generate_appendix") =>
          ENABLED CallGenerateAppendix
    /\ (fn_pc = "returned" /\ fn_arg.fn = "generate_appendix") =>
          /\ Len(fn_ret) = Len(fn_arg.articles)
          /\ \A i \in 1..Len(fn_ret) :
                LET a == fn_arg.articles[i]
                IN  /\ fn_ret[i].href = escape_ref(a.url)
                    /\ fn_ret[i].text =
                          escape_ref(IF a.title = <<>> THEN a.url ELSE a.title)

\* The appendix of an article without a title and one with a title to
\* escape.
C14_Witness ==
    /\ fn_pc = "returned"
    /\ fn_arg.fn = "generate_appendix"
    /\ Len(fn_arg.articles) = 2
    /\ fn_arg.articles[1] = [url |-> <<"u", "&", "<">>, title |-> <<>>]
    /\ fn_arg.articles[2].title = <<"<", "&">>
    /\ fn_ret[1].text = <<"u", "&", "a", "m", "p", ";", "&", "l", "t", ";">>
    /\ fn_ret[2].text = <<"&", "l", "t", ";", "&", "a", "m", "p", ";">>

(***************************************************************************)
(* Properties of generate_header_ids                                       *)
(***************************************************************************)
\* What generate_header_ids leaves alone and what it assigns, between the
\* document before (d) and after (e) the call.
ids_assigned(d, e) ==
    /\ Len(e) = Len(d)
    /\ \A i \in 1..Len(d) :
          /\ e[i].name = d[i].name /\ e[i].text = d[i].text
          /\ e[i].has_id
          /\ d[i].has_id => e[i].id = d[i].id
          /\ ~d[i].has_id => e[i].id = <<"_">> \o md5_hex(d[i].text)
    /\ \A i, j \in 1..Len(d) :
          (~d[i].has_id /\ ~d[j].has_id /\ d[i].text = d[j].text) => e[i].id = e[j].id

\* C11 as claimed: the call keeps the ids that are there, assigns "_" and
\* the digest of the text to the headings without one, equal ids for equal
\* texts, and leaves every heading with a non-empty id.
C11_IdsAssignedNonEmpty ==
    [][toc_pc = "start" =>
          /\ ids_assigned(article, article')
          /\ \A i \in 1..Len(article') : article'[i].id # <<>>]_vars

\* What the call does: the same, with the id non-empty for every heading
\* that had no id or a non-empty one; a heading that came with id="" keeps it.
C11_IdsAssigned ==
    [][toc_pc = "start" =>
          /\ ids_assigned(article, article')
          /\ \A i \in 1..Len(article') :
                (article'[i].id = <<>>) <=> (article[i].has_id /\ article[i].id = <<>>)]_vars

\* A processed document of a tagged heading and two untagged headings of
\* the same text.
C11_Witness ==
    /\ toc_pc = "loop"
    /\ Len(article) = 3
    /\ article[1].id = <<"x">>
    /\ article[2].text = article[3].text
    /\ article[2].id = <<"_">> \o md5_hex(article[2].text)
    /\ article[3].id = article[2].id

\* C12: a second call on the tree the first call left changes no id, so
\* the table of contents built from the tree is the same; a second call
\* after the ids the first call assigned have been removed assigns the same
\* ids again.
C12_Idempotent ==
    [][fn_arg.fn = "generate_header_ids" =>
          /\ (fn_pc = "returned" /\ fn_pc' = "again") =>
                /\ fn_arg'.root_node = fn_arg.root_node
                /\ get_header_level_toc_vec(<<"index.xhtml">>, fn_arg'.root_node)
                      = get_header_level_toc_vec(<<"index.xhtml">>, fn_arg.root_node)
          /\ (fn_pc = "cleared" /\ fn_pc' = "regenerated") =>
                fn_arg'.root_node = fn_ret]_vars

\* The ids of two headings were assigned, removed and assigned again, next
\* to a heading that came with its id.
C12_Witness ==
    /\ fn_pc = "regenerated"
    /\ Cardinality(fn_arg.generated) = 2
    /\ Len(fn_arg.root_node) = 3
    /\ \E i \in 1..3 : fn_arg.root_node[i].id = <<"x">>

(***************************************************************************)
(* Properties of get_header_level_toc_vec                                  *)
(***************************************************************************)
RECURSIVE preorder(_)
\* The [url, title] of every node of a forest, parents before their children
\* and siblings left to right.
preorder(forest) ==
    IF forest = <<>> THEN <<>>
    ELSE <<[url |-> Head(forest).url, title |-> Head(forest).title]>>
             \o preorder(Head(forest).children) \o preorder(Tail(forest))

\* What a TOC entry for the i-th heading of the document links to and shows.
entry_of(i) ==
    [url |-> content_url \o <<"#">> \o article[i].id,
     title |-> replace_escaped_characters(article[i].text)]

\* C8: for headings of levels 1,2,3,1 the forest has 2 roots; the first has
\* exactly 1 child, which has exactly 1 child, which has none; the second
\* root has no children.
C8_Levels1231 ==
    (toc_pc = "done" /\ LevelsOf(article) = <<1, 2, 3, 1>>) =>
        /\ Len(headers_vec) = 2
        /\ Len(headers_vec[1].children) = 1
        /\ Len(headers_vec[1].children[1].children) = 1
        /\ Len(headers_vec[1].children[1].children[1].children) = 0
        /\ Len(headers_vec[2].children) = 0

\* C9: for levels 1,2,2,4,2 the forest is 1 root with exactly 3 children;
\* for levels 1,2,3,2,4,2 it is 1 root with exactly 3 children, the first of
\* which has exactly 1 child, which has none.
C9_Levels12242 ==
    /\ (toc_pc = "done" /\ LevelsOf(article) = <<1, 2, 2, 4, 2>>) =>
            /\ Len(headers_vec) = 1
            /\ Len(headers_vec[1].children) = 3
    /\ (toc_pc = "done" /\ LevelsOf(article) = <<1, 2, 3, 2, 4, 2>>) =>
            /\ Len(headers_vec) = 1
            /\ Len(headers_vec[1].children) = 3
            /\ Len(headers_vec[1].children[1].children) = 1
            /\ Len(headers_vec[1].children[1].children[1].children) = 0

\* C10: the forest holds exactly one node per heading consumed so far, and
\* its pre-order traversal lists those headings in document order; at the
\* return every heading of the document has been consumed, so a document
\* without headings gives the empty forest.
C10_OneNodePerHeading ==
    /\ toc_pc \in {"loop", "done"} =>
            preorder(headers_vec) = [i \in 1..hidx |-> entry_of(i)]
    /\ toc_pc = "done" => hidx = Len(article)
    /\ (toc_pc = "done" /\ article = <<>>) => headers_vec = <<>>

\* A returned forest of two roots or more, one of them with children, for a
\* document of four headings or more.
C10_Witness ==
    /\ toc_pc = "done"
    /\ Len(article) >= 4
    /\ Len(headers_vec) >= 2
    /\ \E r \in 1..Len(headers_vec) : Len(headers_vec[r].children) >= 2

\* The node of the i-th heading when it is put into the forest.
leaf_of(i) == [url |-> entry_of(i).url, title |-> entry_of(i).title, children |-> <<>>]

no_grandchildren(forest) ==
    \A r \in 1..Len(forest) : \A c \in 1..Len(forest[r].children) :
        forest[r].children[c].children = <<>>

RECURSIVE forest_size(_)
forest_size(forest) ==
    IF forest = <<>> THEN 0
    ELSE 1 + forest_size(Head(forest).children) + forest_size(Tail(forest))

\* The nodes of the forest are those of the headings after the first
\* `before` ones, in pre-order (C10); each node's heading has a level greater
\* than `above`, and so on for its children with its own level.
RECURSIVE nested_above(_, _, _)
nested_above(forest, before, above) ==
    IF forest = <<>> THEN TRUE
    ELSE LET level == header_levels[article[before + 1].name]
         IN  /\ level > above
             /\ nested_above(Head(forest).children, before + 1, level)
             /\ nested_above(Tail(forest),
                             before + 1 + forest_size(Head(forest).children), above)

\* C20: after every iteration of the loop, the children of every node of
\* the forest come from headings of a level strictly greater than the level
\* of the heading the node comes from.
C20_ChildrenDeeper ==
    toc_pc \in {"loop", "done"} =>
        /\ forest_size(headers_vec) = hidx
        /\ nested_above(headers_vec, 0, 0)

\* A forest in the making whose last root, of level 2, has children of the
\* levels 3 and 4 and follows a root of level 3.
C20_Witness ==
    /\ toc_pc = "loop"
    /\ hidx < Len(article)
    /\ LevelsOf(SubSeq(article, 1, hidx)) = <<3, 2, 3, 4>>
    /\ Len(headers_vec) = 2
    /\ Len(headers_vec[2].children) = 2

\* The position in the document of the heading the last root was made of:
\* the headings after it, up to the last one consumed, are its children.
last_root_heading ==
    hidx - forest_size(headers_vec[Len(headers_vec)].children)

\* C22: while the loop runs and at the return, a level that is set comes
\* with a root, and is the level of the heading the last root was made of;
\* no iteration panics: the unreachable!() arm is not taken, every heading
\* has a name with a level and, once the anchors are assigned, an id.
C22_NoPanic ==
    /\ toc_pc # "panicked"
    /\ toc_pc \in {"loop", "done"} =>
          /\ \A i \in 1..Len(article) :
                article[i].name \in DOMAIN header_levels /\ article[i].has_id
          /\ last_toc_elem_level # <<>> =>
                /\ headers_vec # <<>>
                /\ last_root_heading \in 1..hidx
                /\ last_toc_elem_level =
                      <<header_levels[article[last_root_heading].name]>>
          /\ (last_toc_elem_level = <<>>) <=> (hidx = 0)

\* The loop has consumed headings of the levels 2,3,1,4, the first of which
\* came without an id: the level is that of the third heading, the last
\* root, whose child the fourth is.
C22_Witness ==
    /\ toc_pc = "loop"
    /\ hidx = 4
    /\ LevelsOf(SubSeq(article, 1, 4)) = <<2, 3, 1, 4>>
    /\ article[1].id = <<"_">> \o md5_hex(article[1].text)
    /\ last_toc_elem_level = <<1>>
    /\ Len(headers_vec) = 2
    /\ Len(headers_vec[2].children) = 1

====
